---- MODULE Spec2Model ----
(***************************************************************************)
(* Model of the vector-index lifecycle of the personal notes assistant:    *)
(*   - calculate_docs_hash (src/main.py), the content fingerprint;         *)
(*   - create_personal_ai_helper (src/main.py), the reuse-or-rebuild       *)
(*     decision over the persistence directory and its docs_hash.json;     *)
(*   - build_vector_store (src/core/vector_store.py).                      *)
(* Text is a sequence of one-character strings, so that sorting,           *)
(* serialisation and concatenation are computed as the code computes them. *)
(***************************************************************************)
EXTENDS Integers, Sequences, FiniteSets, Bags, TLC

VARIABLES
    \* ---- create_personal_ai_helper: one process run at a time ----
    pc,          \* position of the running process in create_personal_ai_helper
    docs,        \* local `docs`, the loaded document collection
    docs_hash,   \* local `docs_hash`
    rebuild_db,  \* local `rebuild_db`
    db,          \* local `db`, the store handed to the retriever
    exitcode,    \* status of the process when it ended through exit()
    \* ---- the persistence directory on disk ----
    dirExists,   \* os.path.exists(persist_directory)
    hashFile,    \* docs_hash.json inside the directory
    index,       \* the Chroma collection persisted in the directory
    \* ---- history of the runs (observation only) ----
    runs,        \* number of processes started so far
    builds,      \* calls of the index build made by the current run
    disk0,       \* the directory as the current run found it
    prev,        \* what the previous process did
    \* ---- calculate_docs_hash applied to drawn inputs ----
    hdocs,       \* the collection given to calculate_docs_hash
    hfp,         \* the fingerprint it returned
    \* ---- interactive_session ----
    spc,         \* position inside interactive_session
    session_dir, \* local `session_dir`
    user_input,  \* local `user_input`
    answer,      \* local `answer`
    turn,        \* what the current turn has done so far
    inputs,      \* number of inputs read so far
    \* ---- load_and_split_folder ----
    raw_docs,    \* what DirectoryLoader.load() returned
    clean_docs   \* what load_and_split_folder returned

sessionVars == <<spc, session_dir, user_input, answer, turn, inputs>>
loaderVars == <<raw_docs, clean_docs>>

vars == <<pc, docs, docs_hash, rebuild_db, db, exitcode, dirExists, hashFile,
          index, runs, builds, disk0, prev, hdocs, hfp, sessionVars,
          loaderVars>>

-----------------------------------------------------------------------------
(* Text                                                                    *)

\* Code points of the characters the model uses (str comparison in Python
\* is by code point).
Ord ==
    (" " :> 32) @@ ("\"" :> 34) @@ ("," :> 44) @@ ("1" :> 49) @@ ("2" :> 50) @@
    (":" :> 58) @@ ("A" :> 65) @@ ("B" :> 66) @@ ("\\" :> 92) @@ ("a" :> 97) @@
    ("b" :> 98) @@ ("c" :> 99) @@ ("e" :> 101) @@ ("g" :> 103) @@ ("m" :> 109) @@
    ("n" :> 110) @@ ("o" :> 111) @@ ("p" :> 112) @@ ("r" :> 114) @@
    ("s" :> 115) @@ ("u" :> 117) @@ ("{" :> 123) @@ ("}" :> 125)

Digit == <<"1", "2", "3", "4", "5", "6", "7", "8", "9">>

\* s < t for Python str: lexicographic by code point, a proper prefix first.
RECURSIVE StrLess(_, _)
StrLess(s, t) ==
    IF t = <<>> THEN FALSE
    ELSE IF s = <<>> THEN TRUE
    ELSE IF Ord[Head(s)] # Ord[Head(t)] THEN Ord[Head(s)] < Ord[Head(t)]
    ELSE StrLess(Tail(s), Tail(t))

\* The characters of a metadata key.
KeyText ==
    ("source" :> <<"s", "o", "u", "r", "c", "e">>) @@
    ("page" :> <<"p", "a", "g", "e">>)

-----------------------------------------------------------------------------
(* json.dumps(doc.metadata, sort_keys=True)                                *)

\* A string value is [t |-> "str", v |-> text], an integer [t |-> "int", v |-> n].
StrVal(s) == [t |-> "str", v |-> s]
IntVal(n) == [t |-> "int", v |-> n]

\* json escapes the quote and the backslash inside a string.
EscapeChar(c) ==
    IF c = "\"" THEN <<"\\", "\"">>
    ELSE IF c = "\\" THEN <<"\\", "\\">>
    ELSE <<c>>

RECURSIVE Escape(_)
Escape(s) == IF s = <<>> THEN <<>> ELSE EscapeChar(Head(s)) \o Escape(Tail(s))

DumpsStr(s) == <<"\"">> \o Escape(s) \o <<"\"">>

RECURSIVE DumpsInt(_)
DumpsInt(n) ==
    IF n = 0 THEN <<"0">>
    ELSE IF n < 10 THEN <<Digit[n]>>
    ELSE DumpsInt(n \div 10) \o (IF n % 10 = 0 THEN <<"0">> ELSE <<Digit[n % 10]>>)

DumpsValue(x) == IF x.t = "str" THEN DumpsStr(x.v) ELSE DumpsInt(x.v)

\* sort_keys=True: the keys of the mapping in ascending order.
SortedKeys(m) ==
    CHOOSE ks \in [1..Cardinality(DOMAIN m) -> DOMAIN m] :
        /\ \A i, j \in DOMAIN ks : i < j => StrLess(KeyText[ks[i]], KeyText[ks[j]])

RECURSIVE DumpsItems(_, _)
DumpsItems(m, ks) ==
    IF ks = <<>> THEN <<>>
    ELSE DumpsStr(KeyText[Head(ks)]) \o <<":", " ">> \o DumpsValue(m[Head(ks)])
         \o (IF Tail(ks) = <<>> THEN <<>> ELSE <<",", " ">> \o DumpsItems(m, Tail(ks)))

\* json.dumps(metadata, sort_keys=True) with the default separators.
JsonDumps(m) == <<"{">> \o DumpsItems(m, SortedKeys(m)) \o <<"}">>

-----------------------------------------------------------------------------
(* calculate_docs_hash                                                     *)

Doc(content, metadata) == [page_content |-> content, metadata |-> metadata]

\* d.metadata.get("source", "")
SourceOf(d) ==
    IF "source" \in DOMAIN d.metadata THEN d.metadata["source"].v ELSE <<>>

\* The sort key (source, content) of a < that of b, as Python compares tuples.
SortKeyLess(a, b) ==
    IF SourceOf(a) # SourceOf(b) THEN StrLess(SourceOf(a), SourceOf(b))
    ELSE StrLess(a.page_content, b.page_content)

\* sorted() is stable: a document goes after every document whose key is not
\* greater than its own, documents of equal key keep their input order.
RECURSIVE InsertSorted(_, _)
InsertSorted(s, d) ==
    IF s = <<>> THEN <<d>>
    ELSE IF SortKeyLess(d, Head(s)) THEN <<d>> \o s
    ELSE <<Head(s)>> \o InsertSorted(Tail(s), d)

RECURSIVE sorted_docs(_)
sorted_docs(ds) ==
    IF ds = <<>> THEN <<>>
    ELSE InsertSorted(sorted_docs(SubSeq(ds, 1, Len(ds) - 1)), ds[Len(ds)])

\* The bytes fed to the digest: per document, content then serialised metadata.
RECURSIVE HashInput(_)
HashInput(ds) ==
    IF ds = <<>> THEN <<>>
    ELSE Head(ds).page_content \o JsonDumps(Head(ds).metadata) \o HashInput(Tail(ds))

\* hexdigest(): the digest is taken to be injective, so the fingerprint is
\* identified with the bytes it digests.
calculate_docs_hash(ds) == HashInput(sorted_docs(ds))

-----------------------------------------------------------------------------
(* Bounds and inputs                                                       *)

MaxRuns == 3      \* processes started in one behaviour

MetaSource(n) == [source |-> StrVal(n)]
N1 == <<"n", "1">>
N2 == <<"n", "2">>

\* The collection of the specification's scenario, and the same with "A"
\* changed to "A2".
ColAB  == << Doc(<<"A">>, MetaSource(N1)), Doc(<<"B">>, MetaSource(N2)) >>
ColA2B == << Doc(<<"A", "2">>, MetaSource(N1)), Doc(<<"B">>, MetaSource(N2)) >>

\* Two chunks of one note whose text quotes the note's own serialised
\* metadata, and the same with the first chunk edited.
MetaText == JsonDumps(MetaSource(N1))
ColQ  == << Doc(MetaText \o <<"a">>, MetaSource(N1)),
            Doc(<<"a">> \o MetaText \o MetaText \o <<"a">>, MetaSource(N1)) >>
ColQ2 == << Doc(<<"a">> \o MetaText, MetaSource(N1)),
            Doc(<<"a">> \o MetaText \o MetaText \o <<"a">>, MetaSource(N1)) >>

\* What load_and_split_folder may return.
Collections == { <<>>, ColAB, ColA2B, ColQ, ColQ2 }

-----------------------------------------------------------------------------
(* The persistence directory                                               *)

NoFile == [kind |-> "absent"]
\* docs_hash.json as json.dump writes it.
HashRecord(h, t) == [kind |-> "object", hash |-> h, timestamp |-> t]
\* docs_hash.json whose text json.load rejects (also the file just opened "w").
Unparseable == [kind |-> "unparseable"]
\* docs_hash.json holding JSON that is no object, e.g. a list.
NonObject == [kind |-> "nonobject"]
\* docs_hash.json holding an object without the key "hash".
NoHashKey == [kind |-> "nohash"]

\* No index files in the directory.
NoIndex == [files |-> "absent", entries |-> EmptyBag, partial |-> FALSE]

RECURSIVE BagOfSeq(_)
BagOfSeq(ds) ==
    IF ds = <<>> THEN EmptyBag ELSE SetToBag({Head(ds)}) (+) BagOfSeq(Tail(ds))

Disk == [dir |-> dirExists, hashFile |-> hashFile, index |-> index]

\* What the process remembers of the previous one.
NoPrev ==
    [completed |-> FALSE, docs |-> <<>>, builds |-> 0, tampered |-> FALSE,
     phase |-> "none", rebuild |-> FALSE]

-----------------------------------------------------------------------------
(* create_personal_ai_helper                                               *)

\* `if not docs`
NoDocumentsMutant(ds) == FALSE
NoDocuments(ds) == ds = <<>>

\* hash_data.get("hash", ""); the empty text stands for the default "".
SavedHashMutant(file) == <<>>
SavedHash(file) == IF file.kind = "object" THEN file.hash ELSE <<>>

\* The try block: "error" when open/json.load/.get raises, else whether the
\* saved hash equals the current one.
HashCheck(file, h) ==
    IF file.kind \in {"unparseable", "nonobject"} THEN "error"
    ELSE IF SavedHash(file) = h THEN "unchanged"
    ELSE "changed"

ResetLocals ==
    /\ docs' = <<>>
    /\ docs_hash' = <<>>
    /\ rebuild_db' = FALSE
    /\ db' = EmptyBag
    /\ builds' = 0
    /\ disk0' = Disk'
    /\ exitcode' = 0

\* A process starts: load_and_split_folder returns the documents of a
\* collection in some load order; exit(1) when there are none, else the
\* fingerprint is computed.
LoadDocs ==
    /\ pc = "idle"
    /\ runs < MaxRuns
    /\ \E c \in Collections : \E p \in Permutations(DOMAIN c) :
        LET ds == [i \in DOMAIN c |-> c[p[i]]] IN
        /\ docs' = ds
        /\ IF NoDocuments(ds)
           THEN /\ pc' = "exited"
                /\ exitcode' = 1
                /\ docs_hash' = <<>>
           ELSE /\ pc' = "check"
                /\ exitcode' = 0
                /\ docs_hash' = calculate_docs_hash(ds)
    /\ runs' = runs + 1
    /\ disk0' = Disk
    /\ UNCHANGED <<rebuild_db, db, dirExists, hashFile, index, builds, prev,
                   hdocs, hfp,
                   sessionVars, loaderVars>>

\* shutil.rmtree(persist_directory, ignore_errors=True)
Rmtree ==
    /\ dirExists' = FALSE
    /\ hashFile' = NoFile
    /\ index' = NoIndex

\* The reuse-or-rebuild decision.
CheckHashUncaught ==
    /\ pc = "check"
    /\ IF dirExists /\ hashFile.kind # "absent"
       THEN CASE HashCheck(hashFile, docs_hash) = "unchanged" ->
                    /\ rebuild_db' = FALSE
                    /\ pc' = "makedirs"
                    /\ UNCHANGED <<dirExists, hashFile, index>>
              [] HashCheck(hashFile, docs_hash) = "changed" ->
                    /\ rebuild_db' = TRUE
                    /\ pc' = "makedirs"
                    /\ Rmtree
              [] HashCheck(hashFile, docs_hash) = "error" ->
                    /\ rebuild_db' = TRUE
                    /\ pc' = "raised"
                    /\ UNCHANGED <<dirExists, hashFile, index>>
       ELSE /\ rebuild_db' = TRUE
            /\ pc' = "makedirs"
            /\ UNCHANGED <<dirExists, hashFile, index>>
    /\ UNCHANGED <<docs, docs_hash, db, exitcode, runs, builds, disk0, prev,
                   hdocs, hfp,
                   sessionVars, loaderVars>>

CheckHashKeepsDir ==
    /\ pc = "check"
    /\ rebuild_db' = (~(dirExists /\ hashFile.kind # "absent")
                      \/ HashCheck(hashFile, docs_hash) # "unchanged")
    /\ pc' = "makedirs"
    /\ UNCHANGED <<dirExists, hashFile, index>>
    /\ UNCHANGED <<docs, docs_hash, db, exitcode, runs, builds, disk0, prev,
                   hdocs, hfp,
                   sessionVars, loaderVars>>

CheckHash ==
    /\ pc = "check"
    /\ IF dirExists /\ hashFile.kind # "absent"
       THEN CASE HashCheck(hashFile, docs_hash) = "unchanged" ->
                    /\ rebuild_db' = FALSE
                    /\ UNCHANGED <<dirExists, hashFile, index>>
              [] HashCheck(hashFile, docs_hash) = "changed" ->
                    /\ rebuild_db' = TRUE
                    /\ Rmtree
              [] HashCheck(hashFile, docs_hash) = "error" ->
                    \* except Exception: rebuild from scratch
                    /\ rebuild_db' = TRUE
                    /\ Rmtree
       ELSE /\ rebuild_db' = TRUE
            /\ UNCHANGED <<dirExists, hashFile, index>>
    /\ pc' = "makedirs"
    /\ UNCHANGED <<docs, docs_hash, db, exitcode, runs, builds, disk0, prev,
                   hdocs, hfp,
                   sessionVars, loaderVars>>

\* os.makedirs(persist_directory, exist_ok=True)
Makedirs ==
    /\ pc = "makedirs"
    /\ dirExists' = TRUE
    /\ pc' = IF rebuild_db THEN "build" ELSE "load"
    /\ UNCHANGED <<docs, docs_hash, rebuild_db, db, exitcode, hashFile, index,
                   runs, builds, disk0, prev, hdocs, hfp,
                   sessionVars, loaderVars>>

\* build_vector_store(rebuilt_db=True), entered: Chroma.from_documents opens
\* the collection persisted in the directory, creating it when there is none.
BuildStart ==
    /\ pc = "build"
    /\ index' = [index EXCEPT !.files = "present", !.partial = TRUE]
    /\ builds' = builds + 1
    /\ pc' = "building"
    /\ UNCHANGED <<docs, docs_hash, rebuild_db, db, exitcode, dirExists,
                   hashFile, runs, disk0, prev, hdocs, hfp,
                   sessionVars, loaderVars>>

\* build_vector_store(rebuilt_db=True), returned: the documents are added to
\* the collection.
BuildFinish ==
    /\ pc = "building"
    /\ index' = [files |-> "present",
                 entries |-> index.entries (+) BagOfSeq(docs),
                 partial |-> FALSE]
    /\ db' = index'.entries
    /\ pc' = "openhash"
    /\ UNCHANGED <<docs, docs_hash, rebuild_db, exitcode, dirExists, hashFile,
                   runs, builds, disk0, prev, hdocs, hfp,
                   sessionVars, loaderVars>>

\* open(hash_file, "w"): the file exists and is empty.
OpenHashFile ==
    /\ pc = "openhash"
    /\ hashFile' = Unparseable
    /\ pc' = "dumphash"
    /\ UNCHANGED <<docs, docs_hash, rebuild_db, db, exitcode, dirExists, index,
                   runs, builds, disk0, prev, hdocs, hfp,
                   sessionVars, loaderVars>>

\* json.dump({"hash": docs_hash, "timestamp": time.time()}, f)
DumpHash ==
    /\ pc = "dumphash"
    /\ hashFile' = HashRecord(docs_hash, runs)
    /\ pc' = "setup"
    /\ UNCHANGED <<docs, docs_hash, rebuild_db, db, exitcode, dirExists, index,
                   runs, builds, disk0, prev, hdocs, hfp,
                   sessionVars, loaderVars>>

\* build_vector_store(rebuilt_db=False): Chroma(persist_directory=...) opens
\* the persisted collection, creating an empty one when there is none.
LoadStoreRewritesRecord ==
    /\ pc = "load"
    /\ index' = [index EXCEPT !.files = "present"]
    /\ db' = index.entries
    /\ hashFile' = HashRecord(docs_hash, runs)
    /\ pc' = "setup"
    /\ UNCHANGED <<docs, docs_hash, rebuild_db, exitcode, dirExists,
                   runs, builds, disk0, prev, hdocs, hfp,
                   sessionVars, loaderVars>>

LoadStore ==
    /\ pc = "load"
    /\ index' = [index EXCEPT !.files = "present"]
    /\ db' = index.entries
    /\ pc' = "setup"
    /\ UNCHANGED <<docs, docs_hash, rebuild_db, exitcode, dirExists, hashFile,
                   runs, builds, disk0, prev, hdocs, hfp,
                   sessionVars, loaderVars>>

\* Retriever, language model and chain; the helper is returned.
Setup ==
    /\ pc = "setup"
    /\ pc' = "done"
    /\ UNCHANGED <<docs, docs_hash, rebuild_db, db, exitcode, dirExists,
                   hashFile, index, runs, builds, disk0, prev, hdocs, hfp,
                   sessionVars, loaderVars>>

\* An exception leaves create_personal_ai_helper (the directory cannot be
\* made, the embedding or the index backend fails, the record cannot be
\* written, the language model cannot be set up) and reaches the except clause
\* of __main__; a build that was under way has persisted some of the documents.
Raise ==
    /\ pc \in {"makedirs", "build", "building", "openhash", "dumphash", "load",
               "setup"}
    /\ IF pc = "building"
       THEN \E k \in 0..(Len(docs) - 1) :
                index' = [index EXCEPT
                             !.entries = @ (+) BagOfSeq(SubSeq(docs, 1, k))]
       ELSE index' = index
    /\ pc' = "except"
    /\ UNCHANGED <<docs, docs_hash, rebuild_db, db, exitcode, dirExists,
                   hashFile, runs, builds, disk0, prev, hdocs, hfp,
                   sessionVars, loaderVars>>

\* __main__: except Exception: print "Fatal Error ..." and exit(1).
MainExceptNoExit ==
    /\ pc = "except"
    /\ pc' = "failed"
    /\ exitcode' = 0
    /\ UNCHANGED <<docs, docs_hash, rebuild_db, db, dirExists, hashFile, index,
                   runs, builds, disk0, prev, hdocs, hfp, sessionVars,
                   loaderVars>>

MainExcept ==
    /\ pc = "except"
    /\ pc' = "failed"
    /\ exitcode' = 1
    /\ UNCHANGED <<docs, docs_hash, rebuild_db, db, dirExists, hashFile, index,
                   runs, builds, disk0, prev, hdocs, hfp, sessionVars,
                   loaderVars>>

\* __main__: interactive_session(helper) is called with the returned helper.
StartSession ==
    /\ pc = "done"
    /\ pc' = "session"
    /\ UNCHANGED <<docs, docs_hash, rebuild_db, db, exitcode, dirExists,
                   hashFile, index, runs, builds, disk0, prev, hdocs, hfp,
                   sessionVars, loaderVars>>

\* The process ends, after the session or through exit(1).
EndProcess ==
    /\ pc \in {"session", "exited", "raised", "failed"}
    /\ prev' = [completed |-> (pc = "session"), docs |-> docs, builds |-> builds,
                tampered |-> FALSE, phase |-> pc, rebuild |-> rebuild_db]
    /\ pc' = "idle"
    /\ UNCHANGED <<dirExists, hashFile, index, runs, hdocs, hfp,
                   sessionVars, loaderVars>>
    /\ ResetLocals

\* The process is stopped between two steps; a build that was under way has
\* persisted some of the documents, not all.
Crash ==
    /\ pc \in {"check", "makedirs", "build", "building", "openhash",
               "dumphash", "load", "setup"}
    /\ IF pc = "building"
       THEN \E k \in 0..(Len(docs) - 1) :
                index' = [index EXCEPT
                             !.entries = @ (+) BagOfSeq(SubSeq(docs, 1, k))]
       ELSE index' = index
    /\ prev' = [completed |-> FALSE, docs |-> docs, builds |-> builds,
                tampered |-> FALSE, phase |-> pc, rebuild |-> rebuild_db]
    /\ pc' = "idle"
    /\ UNCHANGED <<dirExists, hashFile, runs, hdocs, hfp,
                   sessionVars, loaderVars>>
    /\ ResetLocals

-----------------------------------------------------------------------------
(* Between two processes: what happens to the directory                    *)

\* docs_hash.json is deleted.
DeleteSidecar ==
    /\ pc = "idle"
    /\ hashFile.kind # "absent"
    /\ hashFile' = NoFile
    /\ prev' = [prev EXCEPT !.tampered = TRUE]
    /\ UNCHANGED <<pc, docs, docs_hash, rebuild_db, db, exitcode, dirExists,
                   index, runs, builds, hdocs, hfp,
                   sessionVars, loaderVars>>
    /\ disk0' = Disk'

\* docs_hash.json is overwritten with text that is not the record.
CorruptSidecar ==
    /\ pc = "idle"
    /\ hashFile.kind = "object"
    /\ hashFile' \in {Unparseable, NonObject, NoHashKey}
    /\ prev' = [prev EXCEPT !.tampered = TRUE]
    /\ UNCHANGED <<pc, docs, docs_hash, rebuild_db, db, exitcode, dirExists,
                   index, runs, builds, hdocs, hfp,
                   sessionVars, loaderVars>>
    /\ disk0' = Disk'

\* The index files are deleted, docs_hash.json stays.
DeleteIndex ==
    /\ pc = "idle"
    /\ index.files = "present"
    /\ index' = NoIndex
    /\ prev' = [prev EXCEPT !.tampered = TRUE]
    /\ UNCHANGED <<pc, docs, docs_hash, rebuild_db, db, exitcode, dirExists,
                   hashFile, runs, builds, hdocs, hfp,
                   sessionVars, loaderVars>>
    /\ disk0' = Disk'

-----------------------------------------------------------------------------
\* interactive_session has not been entered.
\* A response mapping without the key "answer".
NoAnswerField == [has |-> FALSE]

\* What has happened for the input read last: calls of qa_chain.invoke, whether
\* the call returned and what, the answers printed and passed to
\* save_conversation_turn, history files written, errors printed, and whether
\* console.input raised EOFError.
NoTurn ==
    [invokes |-> 0, invoked_ok |-> FALSE, response |-> NoAnswerField,
     shown |-> <<>>, saved |-> <<>>, written |-> 0, reported |-> 0,
     eof |-> FALSE]

SessionOff ==
    /\ spc = "off"
    /\ session_dir = "unset"
    /\ user_input = <<>>
    /\ answer = <<>>
    /\ turn = NoTurn
    /\ inputs = 0

\* load_and_split_folder has not been called.
LoaderOff ==
    /\ raw_docs = <<>>
    /\ clean_docs = <<>>

\* No process has run and there is no persistence directory.
ResolverIdle ==
    /\ pc = "idle"
    /\ docs = <<>>
    /\ docs_hash = <<>>
    /\ rebuild_db = FALSE
    /\ db = EmptyBag
    /\ exitcode = 0
    /\ dirExists = FALSE
    /\ hashFile = NoFile
    /\ index = NoIndex
    /\ runs = 0
    /\ builds = 0
    /\ disk0 = [dir |-> FALSE, hashFile |-> NoFile, index |-> NoIndex]
    /\ prev = NoPrev

Init ==
    /\ ResolverIdle
    /\ hdocs = <<>>
    /\ hfp = <<>>
    /\ SessionOff
    /\ LoaderOff

Next ==
    \/ LoadDocs
    \/ CheckHash
    \/ Makedirs
    \/ BuildStart
    \/ BuildFinish
    \/ OpenHashFile
    \/ DumpHash
    \/ LoadStore
    \/ Setup
    \/ Raise
    \/ MainExcept
    \/ StartSession
    \/ EndProcess
    \/ Crash
    \/ DeleteSidecar
    \/ CorruptSidecar
    \/ DeleteIndex

Spec == Init /\ [][Next]_vars

-----------------------------------------------------------------------------
(* Properties of create_personal_ai_helper                                 *)

\* The reuse-or-rebuild decision of the current run has been taken.
Decided ==
    pc \in {"makedirs", "build", "building", "openhash", "dumphash", "load",
            "setup", "done"}

\* The index build of the current run has returned.
Built == rebuild_db /\ pc \in {"openhash", "dumphash", "setup", "done"}

Range(s) == {s[i] : i \in DOMAIN s}

\* C1: after every rebuild the persisted index holds only entries of the
\* current document collection, whatever the directory held before.
C1_RebuildDiscardsPrior ==
    Built => BagToSet(index.entries) \subseteq Range(docs)

\* C2: when the stored fingerprint equals the current one but the directory
\* holds no index files, the run rebuilds.
C2_MissingIndexRebuilds ==
    ( /\ Decided
      /\ disk0.dir
      /\ disk0.hashFile.kind = "object"
      /\ disk0.hashFile.hash = docs_hash
      /\ disk0.index.files = "absent" )
    => rebuild_db

\* C3: fingerprint-after-index. While a rebuild has not yet returned from the
\* index build, and whenever the persisted index is partially built, the
\* directory holds no docs_hash.json; and the run that follows a process
\* stopped inside a rebuild rebuilds.
C3_FingerprintAfterIndex ==
    /\ (rebuild_db /\ pc \in {"makedirs", "build", "building", "openhash"})
           => hashFile = NoFile
    /\ index.partial => hashFile = NoFile
    /\ ( /\ Decided
         /\ prev.rebuild
         /\ prev.phase \in {"makedirs", "build", "building", "openhash",
                            "dumphash"} )
           => rebuild_db

\* A rebuild that follows a process stopped in the middle of the index build.
C3_Witness ==
    /\ pc = "done"
    /\ rebuild_db
    /\ prev.phase = "building"
    /\ hashFile = HashRecord(docs_hash, runs)

\* The previous process completed with the same documents, loaded in any
\* order, and nothing touched the directory since.
SameCollectionAgain ==
    /\ pc # "idle"
    /\ prev.completed
    /\ ~prev.tampered
    /\ BagOfSeq(prev.docs) = BagOfSeq(docs)

\* C4: idempotent reuse. Two consecutive completed runs over the same
\* collection build the index at most once, and the second run reuses.
C4_IdempotentReuse ==
    SameCollectionAgain =>
        /\ prev.builds + builds <= 1
        /\ Decided => ~rebuild_db

\* The second run has completed on the reuse path after a run that built,
\* the documents having been loaded in another order.
C4_Witness ==
    /\ SameCollectionAgain
    /\ pc = "done"
    /\ prev.builds = 1
    /\ builds = 0
    /\ ~rebuild_db
    /\ prev.docs # docs

\* Collection b is collection a, in any order, with exactly one document
\* changed.
OneDocChanged(a, b) ==
    /\ Len(a) = Len(b)
    /\ \E p \in Permutations(DOMAIN a) :
           Cardinality({i \in DOMAIN a : a[p[i]] # b[i]}) = 1
    /\ BagOfSeq(a) # BagOfSeq(b)

\* C5: rebuild-on-change. A completed run over a collection in which one
\* document of the previous completed run's collection was changed has
\* rebuilt exactly once and has stored the new collection's fingerprint.
C5_RebuildOnChange ==
    ( /\ pc = "done"
      /\ prev.completed
      /\ ~prev.tampered
      /\ OneDocChanged(prev.docs, docs) )
    => /\ builds = 1
       /\ hashFile.kind = "object"
       /\ hashFile.hash = docs_hash

\* The run found the index files but docs_hash.json deleted or unreadable.
SidecarLost ==
    /\ disk0.dir
    /\ disk0.index.files = "present"
    /\ disk0.hashFile.kind \in {"absent", "unparseable", "nonobject"}

\* C6: corruption recovery. With docs_hash.json deleted or unreadable and the
\* index still there, no exception leaves create_personal_ai_helper, the run
\* rebuilds, and it ends with the current fingerprint stored.
C6_CorruptionRecovery ==
    /\ pc # "raised"
    /\ (SidecarLost /\ Decided) => rebuild_db
    /\ (SidecarLost /\ pc = "done") =>
           /\ builds = 1
           /\ hashFile.kind = "object"
           /\ hashFile.hash = docs_hash

\* A run that found JSON that is no object has completed.
C6_Witness ==
    /\ SidecarLost
    /\ disk0.hashFile.kind = "nonobject"
    /\ pc = "done"

\* C10: empty-input rejection. With no documents the process exits with
\* status 1 straight after loading, and the directory is as the run found it:
\* not created, not removed, no index built, docs_hash.json untouched.
C10_EmptyInputRejected ==
    /\ (pc # "idle" /\ docs = <<>>) => pc = "exited"
    /\ pc = "exited" =>
           /\ docs = <<>>
           /\ exitcode = 1
           /\ Disk = disk0
           /\ builds = 0

\* The process has exited for lack of documents beside an existing index.
C10_Witness ==
    /\ pc = "exited"
    /\ dirExists
    /\ hashFile.kind = "object"
    /\ index.files = "present"

-----------------------------------------------------------------------------
(* calculate_docs_hash applied to drawn collections                        *)

MaxTokens == 4    \* tokens in one document's content
MaxDocs == 2      \* documents in one collection

\* A content is made of letters and of text that reads like the serialised
\* metadata of a note.
HTokens == { <<"a">>, MetaText }

RECURSIVE TokenStrings(_)
TokenStrings(n) ==
    IF n = 0 THEN { <<>> }
    ELSE { t \o s : t \in HTokens, s \in TokenStrings(n - 1) }

HContents == UNION { TokenStrings(n) : n \in 1..MaxTokens }

HMetas ==
    { MetaSource(N1),
      MetaSource(N2),
      [source |-> StrVal(N1), page |-> IntVal(1)],
      [source |-> StrVal(N1), page |-> IntVal(2)] }

HDocs == { Doc(c, m) : c \in HContents, m \in HMetas }

HCollections == UNION { [1..k -> HDocs] : k \in 0..MaxDocs }

\* The collections made of chunks of the one note n1.
NoteCollections ==
    UNION { [1..k -> { Doc(c, MetaSource(N1)) : c \in HContents }] : k \in 1..MaxDocs }

resolverVars ==
    <<pc, docs, docs_hash, rebuild_db, db, exitcode, dirExists, hashFile,
      index, runs, builds, disk0, prev>>

HInit ==
    /\ ResolverIdle
    /\ SessionOff
    /\ LoaderOff
    /\ hdocs \in HCollections
    /\ hfp = calculate_docs_hash(hdocs)

\* The same documents are loaded in another order.
Shuffle ==
    /\ \E p \in Permutations(DOMAIN hdocs) :
        /\ \E i \in DOMAIN hdocs : p[i] # i
        /\ hdocs' = [i \in DOMAIN hdocs |-> hdocs[p[i]]]
    /\ hfp' = calculate_docs_hash(hdocs')
    /\ UNCHANGED <<resolverVars, sessionVars, loaderVars>>

\* The content of one document is changed.
ChangeContent ==
    /\ \E i \in DOMAIN hdocs, c \in HContents :
        /\ c # hdocs[i].page_content
        /\ hdocs' = [hdocs EXCEPT ![i].page_content = c]
    /\ hfp' = calculate_docs_hash(hdocs')
    /\ UNCHANGED <<resolverVars, sessionVars, loaderVars>>

\* The metadata of one document is changed.
ChangeMetadata ==
    /\ \E i \in DOMAIN hdocs, m \in HMetas :
        /\ m # hdocs[i].metadata
        /\ hdocs' = [hdocs EXCEPT ![i].metadata = m]
    /\ hfp' = calculate_docs_hash(hdocs')
    /\ UNCHANGED <<resolverVars, sessionVars, loaderVars>>

\* The note n1 is split into other chunks.
Rechunk ==
    /\ hdocs \in NoteCollections
    /\ \E ds \in NoteCollections :
        /\ ds # hdocs
        /\ hdocs' = ds
    /\ hfp' = calculate_docs_hash(hdocs')
    /\ UNCHANGED <<resolverVars, sessionVars, loaderVars>>

HNext ==
    \/ Shuffle
    \/ ChangeContent
    \/ ChangeMetadata
    \/ Rechunk

SpecHash == HInit /\ [][HNext]_vars

\* C7: order-independence. Loading the same documents in any other order
\* leaves the fingerprint unchanged.
C7_OrderIndependent ==
    [][BagOfSeq(hdocs') = BagOfSeq(hdocs) => hfp' = hfp]_vars

\* C8: sensitivity. Changing the content or the metadata of one document
\* changes the bytes fed to the digest.
C8_Sensitive ==
    [][OneDocChanged(hdocs, hdocs') => hfp' # hfp]_vars

\* C9: no collision across document boundaries. Two collections that differ
\* as multisets of documents never feed the same bytes to the digest.
C9_UnambiguousEncoding ==
    [][BagOfSeq(hdocs') # BagOfSeq(hdocs) => hfp' # hfp]_vars

-----------------------------------------------------------------------------
(* Further properties of create_personal_ai_helper and __main__            *)

\* C12: every fatal initialisation failure ends the process with status 1
\* without the interactive session: the process that found no documents and
\* the process in which create_personal_ai_helper raised end with status 1,
\* their next step is the end of the process, and interactive_session is
\* entered only from a returned helper.
C12_FatalInitExitsOne ==
    [][ /\ (pc' \in {"exited", "failed"}) => exitcode' = 1
        /\ (pc = "except") => pc' \in {"failed", "idle"}
        /\ (pc \in {"exited", "failed"}) => pc' = "idle"
        /\ (pc' = "session") => (pc = "done" /\ exitcode = 0) ]_vars

\* A process has ended with status 1 after an exception raised while an index
\* build was under way.
C12_Witness ==
    /\ pc = "failed"
    /\ exitcode = 1
    /\ index.partial
    /\ builds = 1

\* The run is on the reuse path.
Reusing == Decided /\ ~rebuild_db

\* C13: reuse is read-only. On the reuse path the directory is not removed,
\* no index build is made, the persisted entries are those the run found, and
\* docs_hash.json keeps the hash and the timestamp it had.
C13_ReuseReadOnly ==
    Reusing =>
        /\ dirExists
        /\ disk0.dir
        /\ builds = 0
        /\ index.entries = disk0.index.entries
        /\ hashFile = disk0.hashFile
        /\ hashFile.kind = "object"
        /\ hashFile.hash = docs_hash

\* A later process has reused the directory: the record still carries the
\* timestamp of the process that built.
C13_Witness ==
    /\ Reusing
    /\ pc = "done"
    /\ hashFile.timestamp < runs

\* C16: cache coherence. Whenever create_personal_ai_helper has returned, the
\* store handed to the retriever holds exactly the chunks of the run's
\* collection and docs_hash.json holds that collection's fingerprint.
C16_CacheCoherence ==
    pc = "done" =>
        /\ db = BagOfSeq(docs)
        /\ hashFile.kind = "object"
        /\ hashFile.hash = docs_hash

-----------------------------------------------------------------------------
(* filter_metadata and load_and_split_folder (src/core/loader.py)          *)

MaxRaw == 2       \* documents DirectoryLoader returns

FloatVal(x) == [t |-> "float", v |-> x]
BoolVal(b) == [t |-> "bool", v |-> b]
NoneVal == [t |-> "none"]
DictVal(m) == [t |-> "dict", v |-> m]
ListVal(items) == [t |-> "list", v |-> items]

\* isinstance(v, (str, int, float, bool))
IsPrimitive(x) == x.t \in {"str", "int", "float", "bool"}

\* The condition of the comprehension: which items are kept.
KeepsItemAnyList(x) ==
    \/ IsPrimitive(x)
    \/ (x.t = "list" /\ Len(x.v) > 0)
KeepsItem(x) ==
    \/ IsPrimitive(x)
    \/ (x.t = "list" /\ Len(x.v) > 0 /\ IsPrimitive(x.v[1]))

\* The value of the comprehension: v[0] if isinstance(v, list) and len(v) > 0
\* else v.
Flattened(x) == IF x.t = "list" /\ Len(x.v) > 0 THEN x.v[1] ELSE x

filter_metadata(m) ==
    [k \in {j \in DOMAIN m : KeepsItem(m[j])} |-> Flattened(m[k])]

\* os.path.basename: the text after the last "/".
RECURSIVE Basename(_)
Basename(path) ==
    IF path = <<>> THEN <<>>
    ELSE IF \E i \in DOMAIN path : path[i] = "/"
         THEN Basename(Tail(path))
         ELSE path

Unknown == <<"u", "n", "k", "n", "o", "w", "n">>

\* if "source" not in doc.metadata: doc.metadata["source"] =
\*     os.path.basename(doc.metadata.get("source", "unknown"))
EnsureSource(m) ==
    IF "source" \notin DOMAIN m
    THEN m @@ ("source" :> StrVal(Basename(Unknown)))
    ELSE m

\* The splitter copies a document's metadata to its chunks; one chunk stands
\* for them.
SplitDocuments(ds) == ds

load_and_split_folder(raws) ==
    SplitDocuments(
        [i \in DOMAIN raws |->
            Doc(raws[i].page_content,
                filter_metadata(EnsureSource(raws[i].metadata)))])

\* A path of a note and the values a loader may put in metadata.
NotePath == <<"d", "/", "n", "1">>

MetaValues ==
    { StrVal(NotePath), IntVal(1), FloatVal(1), BoolVal(TRUE), NoneVal,
      DictVal([page |-> IntVal(1)]),
      ListVal(<<>>),
      ListVal(<<StrVal(NotePath)>>),
      ListVal(<<IntVal(1), NoneVal>>),
      ListVal(<<NoneVal, IntVal(1)>>),
      ListVal(<<DictVal([page |-> IntVal(1)])>>) }

RawMetas ==
    UNION { [ks -> MetaValues] : ks \in SUBSET {"source", "page"} }

\* What DirectoryLoader returns for a file: the text, the metadata, and (for
\* reference) the path of the file it read.
RawDocs == { [page_content |-> <<"a">>, metadata |-> m, path |-> NotePath] :
                m \in RawMetas }

LInit ==
    /\ ResolverIdle
    /\ hdocs = <<>>
    /\ hfp = <<>>
    /\ SessionOff
    /\ LoaderOff

\* DirectoryLoader reads one more file of the folder.
LoadFile ==
    /\ clean_docs = <<>>
    /\ Len(raw_docs) < MaxRaw
    /\ \E d \in RawDocs : raw_docs' = Append(raw_docs, d)
    /\ UNCHANGED <<resolverVars, hdocs, hfp, sessionVars, clean_docs>>

\* load_and_split_folder returns.
LoadFolder ==
    /\ clean_docs = <<>>
    /\ raw_docs # <<>>
    /\ clean_docs' = load_and_split_folder(raw_docs)
    /\ UNCHANGED <<resolverVars, hdocs, hfp, sessionVars, raw_docs>>

LNext == LoadFile \/ LoadFolder

SpecLoader == LInit /\ [][LNext]_vars

\* load_and_split_folder has returned.
Loaded == clean_docs # <<>>

\* The metadata filter_metadata was given for document i.
FilterInput(i) == EnsureSource(raw_docs[i].metadata)

\* C15: metadata normalisation. filter_metadata returns only primitive
\* values; a key with a primitive value is kept unchanged, a key whose value
\* is a non-empty list with a primitive first element is kept as that
\* element, and every other key is dropped.
C15_MetadataNormalised ==
    Loaded =>
        \A i \in DOMAIN clean_docs :
            LET m == FilterInput(i)
                out == clean_docs[i].metadata
            IN /\ DOMAIN out \subseteq DOMAIN m
               /\ \A k \in DOMAIN out : IsPrimitive(out[k])
               /\ \A k \in DOMAIN m :
                    IF IsPrimitive(m[k])
                    THEN k \in DOMAIN out /\ out[k] = m[k]
                    ELSE IF m[k].t = "list" /\ m[k].v # <<>>
                            /\ IsPrimitive(m[k].v[1])
                    THEN k \in DOMAIN out /\ out[k] = m[k].v[1]
                    ELSE k \notin DOMAIN out

\* A document was loaded with a kept primitive, a flattened list, and a
\* dropped list of non-primitives.
C15_Witness ==
    /\ Loaded
    /\ \E i \in DOMAIN clean_docs :
        /\ raw_docs[i].metadata =
              [source |-> ListVal(<<StrVal(NotePath)>>), page |-> NoneVal]
        /\ clean_docs[i].metadata = [source |-> StrVal(NotePath)]

\* C17: every returned document has a `source`, and it is the file's name
\* when the loader supplied none.
C17_SourcePopulated ==
    Loaded =>
        \A i \in DOMAIN clean_docs :
            /\ "source" \in DOMAIN clean_docs[i].metadata
            /\ "source" \notin DOMAIN raw_docs[i].metadata =>
                   clean_docs[i].metadata["source"]
                       = StrVal(Basename(raw_docs[i].path))

-----------------------------------------------------------------------------
(* interactive_session and save_conversation_turn (src/main.py)            *)

MaxInputs == 2    \* lines read from the console in one session

\* str.lower on the letters used.
UpperLetters == <<"E", "I", "Q", "T", "U", "X">>
LowerLetters == <<"e", "i", "q", "t", "u", "x">>
LowerChar(c) ==
    IF \E i \in DOMAIN UpperLetters : UpperLetters[i] = c
    THEN LowerLetters[CHOOSE i \in DOMAIN UpperLetters : UpperLetters[i] = c]
    ELSE c
Lower(s) == [i \in DOMAIN s |-> LowerChar(s[i])]

\* str.strip
Whitespace == {" ", "\t", "\n"}
RECURSIVE LStrip(_)
LStrip(s) == IF s # <<>> /\ Head(s) \in Whitespace THEN LStrip(Tail(s)) ELSE s
RECURSIVE RStrip(_)
RStrip(s) ==
    IF s # <<>> /\ s[Len(s)] \in Whitespace
    THEN RStrip(SubSeq(s, 1, Len(s) - 1))
    ELSE s
Strip(s) == RStrip(LStrip(s))

ExitWords == { <<"e", "x", "i", "t">>, <<"q", "u", "i", "t">> }

\* user_input.lower() in ["exit", "quit"]
IsExit(u) == Lower(u) \in ExitWords

\* not user_input.strip()
IsBlankOnlyEmpty(u) == u = <<>>
IsBlank(u) == Strip(u) = <<>>

\* The fallback text (its sentence kept as one token) and the heading put
\* before an answer without one.
NoteFallback ==
    <<"#", " ", "N", "o", "t", "e", "\n", "\n",
      "I couldn't formulate a specific response">>
ResponseHeading ==
    <<"#", " ", "R", "e", "s", "p", "o", "n", "s", "e", "\n", "\n">>

WithAnswer(a) == [has |-> TRUE, answer |-> a]

\* response.get("answer", "").strip() raises when the value is no string.
AnswerRaises(r) == r.has /\ r.answer.t # "str"

\* response.get("answer", "").strip()
AnswerTextNoStrip(r) == IF r.has THEN r.answer.v ELSE <<>>
AnswerText(r) == Strip(IF r.has THEN r.answer.v ELSE <<>>)

\* if not answer: ... elif not answer.startswith("#"): ...
FormatAnswerNoHeading(a) == IF a = <<>> THEN NoteFallback ELSE a
FormatAnswer(a) ==
    IF a = <<>> THEN NoteFallback
    ELSE IF a[1] # "#" THEN ResponseHeading \o a
    ELSE a

\* Lines typed at the prompt.
Inputs ==
    { <<"e", "x", "i", "t">>, <<"E", "x", "I", "t">>, <<"Q", "U", "I", "T">>,
      <<" ", "e", "x", "i", "t">>, <<"e", "x", "i", "t", " ">>,
      <<>>, <<" ">>, <<" ", "\t">>, <<"h", "i">> }

\* Answers of the completion provider.
AnswerTexts ==
    { <<>>, <<" ">>, <<"\n", " ", "\t">>, <<"o", "k">>, <<" ", "o", "k", " ">>,
      <<"#", " ", "T">>, <<" ", "#", " ", "T">>, <<"#", " ", "T", "\n">>,
      <<"#">> }

\* What qa_chain.invoke may return.
Responses ==
    {NoAnswerField, WithAnswer(NoneVal)}
        \cup { WithAnswer(StrVal(a)) : a \in AnswerTexts }

\* create_personal_ai_helper has returned after a first build over ColAB.
HelperReturned ==
    /\ pc = "session"
    /\ docs = ColAB
    /\ docs_hash = calculate_docs_hash(ColAB)
    /\ rebuild_db = TRUE
    /\ db = BagOfSeq(ColAB)
    /\ exitcode = 0
    /\ dirExists = TRUE
    /\ hashFile = HashRecord(calculate_docs_hash(ColAB), 1)
    /\ index = [files |-> "present", entries |-> BagOfSeq(ColAB),
                partial |-> FALSE]
    /\ runs = 1
    /\ builds = 1
    /\ disk0 = [dir |-> FALSE, hashFile |-> NoFile, index |-> NoIndex]
    /\ prev = NoPrev

SInit ==
    /\ HelperReturned
    /\ hdocs = <<>>
    /\ hfp = <<>>
    /\ LoaderOff
    /\ spc = "mkdir"
    /\ session_dir = "unset"
    /\ user_input = <<>>
    /\ answer = <<>>
    /\ turn = NoTurn
    /\ inputs = 0

sessionFrame == <<resolverVars, hdocs, hfp, loaderVars>>

\* os.makedirs(session_dir, exist_ok=True) succeeds.
MakeSessionDir ==
    /\ spc = "mkdir"
    /\ session_dir' = "created"
    /\ spc' = "read"
    /\ UNCHANGED <<sessionFrame, user_input, answer, turn, inputs>>

\* os.makedirs raises: session_dir = None.
MakeSessionDirFails ==
    /\ spc = "mkdir"
    /\ session_dir' = "none"
    /\ spc' = "read"
    /\ UNCHANGED <<sessionFrame, user_input, answer, turn, inputs>>

\* console.input returns a line; the exit and blank tests follow.
ReadInput ==
    /\ spc = "read"
    /\ inputs < MaxInputs
    /\ \E u \in Inputs :
        /\ user_input' = u
        /\ spc' = IF IsExit(u) THEN "ended"
                  ELSE IF IsBlank(u) THEN "read"
                  ELSE "invoke"
    /\ inputs' = inputs + 1
    /\ turn' = NoTurn
    /\ UNCHANGED <<sessionFrame, session_dir, answer>>

\* console.input raises EOFError.
ReadEOF ==
    /\ spc = "read"
    /\ user_input' = <<>>
    /\ turn' = [NoTurn EXCEPT !.eof = TRUE]
    /\ spc' = "ended"
    /\ UNCHANGED <<sessionFrame, session_dir, answer, inputs>>

\* qa_chain.invoke returns a response.
InvokeReturns ==
    /\ spc = "invoke"
    /\ \E r \in Responses :
        turn' = [turn EXCEPT !.invokes = @ + 1, !.invoked_ok = TRUE,
                             !.response = r]
    /\ spc' = "answer"
    /\ UNCHANGED <<sessionFrame, session_dir, user_input, answer, inputs>>

\* qa_chain.invoke raises.
InvokeRaises ==
    /\ spc = "invoke"
    /\ turn' = [turn EXCEPT !.invokes = @ + 1]
    /\ spc' = "except"
    /\ UNCHANGED <<sessionFrame, session_dir, user_input, answer, inputs>>

\* answer = response.get("answer", "").strip() and the two tests on it.
ComputeAnswer ==
    /\ spc = "answer"
    /\ IF AnswerRaises(turn.response)
       THEN /\ spc' = "except"
            /\ UNCHANGED answer
       ELSE /\ answer' = FormatAnswer(AnswerText(turn.response))
            /\ spc' = "render"
    /\ UNCHANGED <<sessionFrame, session_dir, user_input, turn, inputs>>

\* console.print(Markdown(answer))
Render ==
    /\ spc = "render"
    /\ turn' = [turn EXCEPT !.shown = Append(@, answer)]
    /\ spc' = IF session_dir = "created" THEN "save" ELSE "read"
    /\ UNCHANGED <<sessionFrame, session_dir, user_input, answer, inputs>>

\* Printing the answer raises.
RenderRaises ==
    /\ spc = "render"
    /\ spc' = "except"
    /\ UNCHANGED <<sessionFrame, session_dir, user_input, answer, turn, inputs>>

\* save_conversation_turn writes the turn's file.
SaveTurn ==
    /\ spc = "save"
    /\ turn' = [turn EXCEPT !.saved = Append(@, answer), !.written = @ + 1]
    /\ spc' = "read"
    /\ UNCHANGED <<sessionFrame, session_dir, user_input, answer, inputs>>

\* open or write raises inside save_conversation_turn: its own handler prints
\* the error; the file may or may not have been created.
SaveTurnFails ==
    /\ spc = "save"
    /\ \E created \in BOOLEAN :
        turn' = [turn EXCEPT !.saved = Append(@, answer),
                             !.written = IF created THEN @ + 1 ELSE @,
                             !.reported = @ + 1]
    /\ spc' = "read"
    /\ UNCHANGED <<sessionFrame, session_dir, user_input, answer, inputs>>

\* `except Exception` of the loop: print the error, next iteration.
LoopExceptEnds ==
    /\ spc = "except"
    /\ turn' = [turn EXCEPT !.reported = @ + 1]
    /\ spc' = "ended"
    /\ UNCHANGED <<sessionFrame, session_dir, user_input, answer, inputs>>

LoopExcept ==
    /\ spc = "except"
    /\ turn' = [turn EXCEPT !.reported = @ + 1]
    /\ spc' = "read"
    /\ UNCHANGED <<sessionFrame, session_dir, user_input, answer, inputs>>

SNext ==
    \/ MakeSessionDir
    \/ MakeSessionDirFails
    \/ ReadInput
    \/ ReadEOF
    \/ InvokeReturns
    \/ InvokeRaises
    \/ ComputeAnswer
    \/ Render
    \/ RenderRaises
    \/ SaveTurn
    \/ SaveTurnFails
    \/ LoopExcept

SpecSession == SInit /\ [][SNext]_vars

\* C11: per-query failures are isolated. An exception of qa_chain.invoke, of
\* the answer handling or of rendering reaches the loop's handler, which
\* reports it and goes on to read the next input; a failure while saving is
\* reported and the loop reads the next input; the session ends only from the
\* prompt.
C11_FailuresIsolated ==
    [][ /\ (spc = "except") =>
              (spc' = "read" /\ turn'.reported = turn.reported + 1)
        /\ (spc = "save") =>
              /\ spc' = "read"
              /\ (turn'.written = turn.written) =>
                     turn'.reported = turn.reported + 1
        /\ (spc \in {"invoke", "answer", "render"}) =>
              spc' \in {"answer", "render", "save", "read", "except"}
        /\ (spc' = "ended") => spc = "read" ]_vars

\* A failed invocation was reported and the loop is at the prompt again.
C11_Witness ==
    /\ spc = "read"
    /\ turn.invokes = 1
    /\ ~turn.invoked_ok
    /\ turn.reported = 1
    /\ inputs < MaxInputs

\* The response has no answer field, or an empty or whitespace-only answer.
EmptyResponse(r) ==
    \/ ~r.has
    \/ (r.answer.t = "str"
        /\ \A i \in DOMAIN r.answer.v : r.answer.v[i] \in Whitespace)

\* C14: an empty or whitespace-only answer, or a response without an answer
\* field, is replaced by the fallback message before it is shown or saved; no
\* empty answer is displayed or written to history.
C14_EmptyAnswerReplaced ==
    \A a \in Range(turn.shown) \cup Range(turn.saved) :
        /\ a # <<>>
        /\ \E i \in DOMAIN a : a[i] \notin Whitespace
        /\ EmptyResponse(turn.response) => a = NoteFallback

\* A whitespace-only answer was shown and saved as the fallback.
C14_Witness ==
    /\ turn.response = WithAnswer(StrVal(<<"\n", " ", "\t">>))
    /\ turn.shown = <<NoteFallback>>
    /\ turn.saved = <<NoteFallback>>
    /\ turn.written = 1

\* The provider's answer with leading and trailing whitespace removed.
Trimmed(r) == IF r.has THEN Strip(r.answer.v) ELSE <<>>

\* C18: every answer displayed or passed to save_conversation_turn is
\* non-empty and begins with "#": an empty (trimmed) answer becomes the
\* "# Note" fallback, one not starting with "#" gets the "# Response" heading,
\* one starting with "#" is left as it is.
C18_AnswerHasHeading ==
    \A a \in Range(turn.shown) \cup Range(turn.saved) :
        LET t == Trimmed(turn.response)
        IN /\ a # <<>>
           /\ a[1] = "#"
           /\ t = <<>> => a = NoteFallback
           /\ (t # <<>> /\ t[1] # "#") => a = ResponseHeading \o t
           /\ (t # <<>> /\ t[1] = "#") => a = t

\* An answer without a heading was shown with the "# Response" heading and
\* saved.
C18_Witness ==
    /\ turn.response = WithAnswer(StrVal(<<" ", "o", "k", " ">>))
    /\ turn.shown = <<ResponseHeading \o <<"o", "k">> >>
    /\ turn.saved = turn.shown

\* The input read last is empty or whitespace-only.
BlankInput == \A i \in DOMAIN user_input : user_input[i] \in Whitespace

\* The input read last is "exit" or "quit" in some case.
ExitInput == Lower(user_input) \in ExitWords

\* C19: a blank input never invokes the chain and never writes a history
\* file; the loop ends exactly on EOF or on exit/quit in any case, untrimmed;
\* every other input gets exactly one invocation and at most one history file,
\* written only after a successful invocation with the session directory
\* created.
C19_TurnEffects ==
    /\ BlankInput => (turn.invokes = 0 /\ turn.written = 0)
    /\ (spc = "ended") <=> (turn.eof \/ ExitInput)
    /\ ExitInput => (turn.invokes = 0 /\ turn.written = 0)
    /\ turn.invokes <= 1
    /\ turn.written <= 1
    /\ (spc \in {"read", "answer", "render", "save", "except"}
            /\ ~BlankInput /\ ~ExitInput) => turn.invokes = 1
    /\ turn.written = 1 => (turn.invoked_ok /\ session_dir = "created")

\* " exit" was not trimmed: it was answered and its turn saved.
C19_Witness ==
    /\ user_input = <<" ", "e", "x", "i", "t">>
    /\ spc = "read"
    /\ turn.invokes = 1
    /\ turn.written = 1

====
